---- MODULE Spec2Model ----
(***************************************************************************)
(* Model of bulk_subscribe.py (YouTubeBulkSubscriber): the resolution of a *)
(* channel reference to a channel identifier, the subscribe operation and  *)
(* the bulk loop with its two counters, pacing and summary.               *)
(*                                                                         *)
(* Strings are sequences of one-character strings, so that `in`, split and *)
(* strip are computed on characters as Python computes them.               *)
(***************************************************************************)
EXTENDS Integers, Sequences, FiniteSets, TLC

\* ------------------------------------------------------------------ bounds
\* longest reference, in chunks, of the runs on one reference
MaxChunks == 3
\* longest list of references given to bulk_subscribe
MaxUrls == 2

\* ------------------------------------------------------- string primitives
\* the separators the code looks for
ChannelSep == <<"c","h","a","n","n","e","l","/">>
CSep == <<"c","/">>
UserSep == <<"u","s","e","r","/">>
AtSep == <<"@">>
QSep == <<"?">>
Whitespace == {" "}

\* sub starts at position k of s
OccursAt(s, sub, k) ==
  /\ k >= 1
  /\ k + Len(sub) - 1 <= Len(s)
  /\ SubSeq(s, k, k + Len(sub) - 1) = sub

\* Python: sub in s
Contains(s, sub) == \E k \in 1..Len(s) : OccursAt(s, sub, k)

\* Python: s.find(sub) as a 1-based position, 0 when absent
Find(s, sub) ==
  IF Contains(s, sub)
  THEN CHOOSE k \in 1..Len(s) :
         OccursAt(s, sub, k) /\ \A j \in 1..(k - 1) : ~OccursAt(s, sub, j)
  ELSE 0

\* Python: s.split(sep), the list of pieces cut at the successive
\* non-overlapping occurrences of sep, scanning from the left
RECURSIVE Split(_, _)
Split(s, sep) ==
  LET k == Find(s, sep) IN
  IF k = 0 THEN <<s>>
  ELSE <<SubSeq(s, 1, k - 1)>> \o Split(SubSeq(s, k + Len(sep), Len(s)), sep)

\* Python: s.split(sep)[-1]
SplitLast(s, sep) == LET p == Split(s, sep) IN p[Len(p)]
\* Python: s.split(sep)[0]
SplitFirst(s, sep) == Split(s, sep)[1]

\* Python: s.strip()
RECURSIVE LStrip(_)
LStrip(s) == IF s # <<>> /\ Head(s) \in Whitespace THEN LStrip(Tail(s)) ELSE s
RECURSIVE RStrip(_)
RStrip(s) ==
  IF s # <<>> /\ s[Len(s)] \in Whitespace THEN RStrip(SubSeq(s, 1, Len(s) - 1)) ELSE s
Strip(s) == RStrip(LStrip(s))

\* ------------------------------------------------------------- input sets
Chunks == { ChannelSep, CSep, UserSep, AtSep, QSep, <<"U","C">>, <<"x">> }

RECURSIVE ChunkStrings(_)
ChunkStrings(n) ==
  IF n = 0 THEN { <<>> }
  ELSE LET shorter == ChunkStrings(n - 1) IN
       shorter \cup { s \o c : s \in shorter, c \in Chunks }

\* the references of every shape, for the runs on one reference
References == ChunkStrings(MaxChunks) \ { <<>> }

\* the identifiers the external lookups can answer with
ChannelIds == { <<"U","C","1">>, <<"U","C","2">> }
\* the identifiers subscribe_to_channel is called with on its own
SubscribeIds == ChannelIds \cup { <<"U","C","3">> }
\* the delays (seconds) bulk_subscribe is run with
Delays == { 1, 2 }

\* the references bulk_subscribe is run on: one per scheme, one unknown,
\* the first with the surrounding blanks that url.strip() removes
RunUrls ==
  { <<" ">> \o ChannelSep \o <<"U","C","1">> \o <<" ">>,
    AtSep \o <<"x">>,
    CSep \o <<"x">>,
    UserSep \o <<"x">>,
    <<"x">> }


\* ------------------------------------------------------------------ state
VARIABLES
  channel_urls,   \* bulk_subscribe: the list of references
  delay,          \* bulk_subscribe: the delay between two items
  i,              \* bulk_subscribe: 1-based index of the item in hand
  successful,     \* bulk_subscribe: counter
  failed,         \* bulk_subscribe: counter
  rate,           \* bulk_subscribe: the printed success rate, in tenths of %
  sleeps,         \* the time.sleep calls made so far: <<item, seconds>>
  outcomes,       \* how each finished item was counted, in order
  pc,             \* the statement the program is at
  url,            \* extract_channel_id / resolve_custom_url: parameter
  response,       \* the answer of the lookup's .execute()
  ret,            \* extract_channel_id: <<value>> once returned, <<>> before
  exc,            \* the exception in flight, "none" when there is none
  channel_id,     \* subscribe_to_channel: parameter, <<id>> or <<>>
  chk,            \* answer of subscriptions().list for this call
  ins,            \* answer of subscriptions().insert for this call
  out,            \* the branch subscribe_to_channel ended in
  sub_ret,        \* subscribe_to_channel: "True" or "False" once returned
  calls,          \* the external requests issued so far: <<item, request>>
  subs,           \* the service: channels the account is subscribed to
  first           \* the branch the previous subscribe call ended in

vars == << channel_urls, delay, i, successful, failed, rate, sleeps, outcomes,
           pc, url, response, ret, exc, channel_id, chk, ins, out, sub_ret, calls, subs, first >>

bulkVars == << channel_urls, delay, i, successful, failed, rate, sleeps, outcomes >>
resolveVars == << url, response, ret >>
subscribeVars == << channel_id, chk, ins, out, sub_ret >>

NoAnswer == [k |-> "none", items |-> <<>>, content |-> <<>>]

\* ------------------------------------------------- the external service
\* An answer of one .execute(): k is "items" (a response carrying an items
\* list), "ok" (a created resource), "HttpError" (the service answered with
\* an error status and a body) or "Error" (any other exception of the
\* client library, or a response that lacks the "items" key).
Answer(k, items, content) == [k |-> k, items |-> items, content |-> content]

\* the body of an error response as json.loads sees it: not JSON at all, or
\* an object whose error.errors list is absent or holds these entries, each
\* the entry's "reason" (NoReason for an entry without one)
NoReason == "-"
Reasons == { "subscriptionDuplicate", "quotaExceeded", "subscriptionForbidden" }
Body(json, hasErrors, errors) == [json |-> json, hasErrors |-> hasErrors, errors |-> errors]
DuplicateBody == Body(TRUE, TRUE, << "subscriptionDuplicate" >>)
ErrorBodies ==
  { Body(FALSE, FALSE, <<>>), Body(TRUE, FALSE, <<>>), Body(TRUE, TRUE, <<>>),
    Body(TRUE, TRUE, << NoReason >>),
    Body(TRUE, TRUE, << "quotaExceeded", "subscriptionDuplicate" >>) }
  \cup { Body(TRUE, TRUE, << r >>) : r \in Reasons }

\* search().list(..., maxResults=1) and channels().list(...)
LookupAnswers ==
  { Answer("items", <<>>, <<>>), Answer("HttpError", <<>>, <<>>), Answer("Error", <<>>, <<>>) }
  \cup { Answer("items", << id >>, <<>>) : id \in ChannelIds }
\* subscriptions().list(part="id", forChannelId=..., mine=True)
ListAnswers ==
  { Answer("items", <<>>, <<>>), Answer("items", << <<"s","1">> >>, <<>>),
    Answer("HttpError", <<>>, <<>>), Answer("Error", <<>>, <<>>) }
\* subscriptions().insert(...)
InsertAnswers ==
  { Answer("ok", <<>>, <<>>), Answer("Error", <<>>, <<>>) }
  \cup { Answer("HttpError", <<>>, b) : b \in ErrorBodies }

\* ------------------------------------------------------ Identifier Resolver
\* faulty variant of search_query: the handle is cut after the first `@`
search_query_first(u) ==
  IF Contains(u, AtSep)
  THEN LET handle == SplitFirst(Split(u, AtSep)[2], QSep) IN AtSep \o handle
  ELSE LET custom_name == SplitFirst(SplitLast(u, CSep), QSep) IN custom_name

\* resolve_custom_url, lines 89-94: the search query
search_query(u) ==
  IF Contains(u, AtSep)
  THEN LET handle == SplitFirst(SplitLast(u, AtSep), QSep) IN AtSep \o handle
  ELSE LET custom_name == SplitFirst(SplitLast(u, CSep), QSep) IN custom_name

\* resolve_custom_url, lines 97-101: the request it sends
SearchRequest(u) == << "search.list", search_query(u), "channel", "id", 1 >>
\* get_channel_id_by_username, lines 115-117: the request it sends
ChannelsRequest(username) == << "channels.list", username, "id" >>

\* faulty variant of DirectId: the piece after the first `channel/` is taken
DirectId_first(u) == SplitFirst(Split(u, ChannelSep)[2], QSep)

\* extract_channel_id, line 73
DirectId(u) == SplitFirst(SplitLast(u, ChannelSep), QSep)
\* extract_channel_id, line 80
Username(u) == SplitFirst(SplitLast(u, UserSep), QSep)

\* faulty variant of Scheme: no final else, an unmatched reference is looked up as
\* a username
Scheme_noElse(u) ==
  IF Contains(u, ChannelSep) THEN "channel"
  ELSE IF Contains(u, CSep) \/ Contains(u, AtSep) THEN "custom"
  ELSE "user"

\* extract_channel_id, lines 71-83: which branch a reference takes
Scheme(u) ==
  IF Contains(u, ChannelSep) THEN "channel"
  ELSE IF Contains(u, CSep) \/ Contains(u, AtSep) THEN "custom"
  ELSE IF Contains(u, UserSep) THEN "user"
  ELSE "unknown"

\* extract_channel_id up to its return, its raise or the request of the
\* lookup it delegates to (the lookup's .execute() is then in flight)
extract_channel_id ==
  /\ pc = "extract"
  /\ CASE Scheme(url) = "channel" ->
            /\ ret' = << DirectId(url) >>
            /\ pc' = "extract_returned"
            /\ UNCHANGED << exc, calls >>
       [] Scheme(url) = "custom" ->
            /\ calls' = Append(calls, << i, SearchRequest(url) >>)
            /\ pc' = "search"
            /\ UNCHANGED << ret, exc >>
       [] Scheme(url) = "user" ->
            /\ calls' = Append(calls, << i, ChannelsRequest(Username(url)) >>)
            /\ pc' = "channels"
            /\ UNCHANGED << ret, exc >>
       [] OTHER ->
            /\ exc' = "ValueError"
            /\ pc' = "extract_raised"
            /\ UNCHANGED << ret, calls >>
  /\ UNCHANGED << bulkVars, url, response, subscribeVars, subs, first >>

\* lines 103-110 and 119-126: what a lookup does with the answer
LookupResult(a) ==
  IF a.k = "items"
  THEN IF a.items # <<>> THEN [pc |-> "extract_returned", ret |-> << a.items[1] >>, exc |-> "none"]
       ELSE [pc |-> "extract_raised", ret |-> <<>>, exc |-> "ValueError"]
  ELSE [pc |-> "extract_raised", ret |-> <<>>, exc |-> a.k]

\* resolve_custom_url from the answer of search().list().execute() on
resolve_custom_url(a) ==
  /\ pc = "search"
  /\ response' = a
  /\ pc' = LookupResult(a).pc
  /\ ret' = LookupResult(a).ret
  /\ exc' = LookupResult(a).exc
  /\ UNCHANGED << bulkVars, url, subscribeVars, calls, subs, first >>

\* get_channel_id_by_username from the answer of channels().list().execute() on
get_channel_id_by_username(a) ==
  /\ pc = "channels"
  /\ response' = a
  /\ pc' = LookupResult(a).pc
  /\ ret' = LookupResult(a).ret
  /\ exc' = LookupResult(a).exc
  /\ UNCHANGED << bulkVars, url, subscribeVars, calls, subs, first >>

SearchAnswers == \E a \in LookupAnswers : resolve_custom_url(a)
ChannelsAnswers == \E a \in LookupAnswers : get_channel_id_by_username(a)


\* ---------------------------------------------------- Subscription Service
\* lines 133-137 and 146-160: the requests subscribe_to_channel sends
ListRequest(id) == << "subscriptions.list", id, "id", "mine" >>
InsertRequest(id) == << "subscriptions.insert", id, "snippet" >>

\* lines 166-171: the reason read from the body of an HttpError; "raise"
\* when json.loads or the [0] of an empty errors list raises instead
error_reason(b) ==
  IF ~b.json THEN "raise"
  ELSE IF ~b.hasErrors THEN "unknown"
  ELSE IF b.errors = <<>> THEN "raise"
  ELSE IF b.errors[1] = NoReason THEN "unknown"
  ELSE b.errors[1]

\* faulty variant of CheckOutcome: an HttpError of the check is not swallowed
CheckOutcome_noSwallow(a) ==
  IF a.k = "items" THEN (IF a.items # <<>> THEN "return" ELSE "insert")
  ELSE "raise"

\* lines 139-143: what follows the answer of the existence check: return
\* True at once, go on to the create mutation, or let the exception go
CheckOutcome(a) ==
  IF a.k = "items" THEN (IF a.items # <<>> THEN "return" ELSE "insert")
  ELSE IF a.k = "HttpError" THEN "insert"
  ELSE "raise"

\* faulty variant of HandlerOutcome: the duplicate reason is not told apart
HandlerOutcome_noDuplicate(reason) ==
  IF reason = "raise" THEN "Raised" ELSE "Failed"

\* lines 173-178: the branch the HttpError handler ends in
HandlerOutcome(reason) ==
  IF reason = "raise" THEN "Raised"
  ELSE IF reason = "subscriptionDuplicate" THEN "AlreadySubscribed"
  ELSE "Failed"

\* lines 162-178: the branch the answer of the create mutation leads to
InsertOutcome(a) ==
  IF a.k = "ok" THEN "Created"
  ELSE IF a.k = "HttpError" THEN HandlerOutcome(error_reason(a.content))
  ELSE "Raised"

\* faulty variant of ReturnValue: only a created subscription returns True
ReturnValue_createdOnly(o) == IF o = "Created" THEN "True" ELSE "False"

\* lines 141, 163, 175, 178: the value each returning branch returns
ReturnValue(o) == IF o \in { "Created", "AlreadySubscribed" } THEN "True" ELSE "False"

\* subscribe_to_channel, lines 128-137: entry, the existence check is sent
subscribe_to_channel ==
  /\ pc = "subscribe"
  /\ calls' = Append(calls, << i, ListRequest(channel_id[1]) >>)
  /\ pc' = "list"
  /\ UNCHANGED << bulkVars, resolveVars, exc, subscribeVars, subs, first >>

\* lines 139-160: from the answer of the existence check on
existing_sub(a) ==
  /\ pc = "list"
  /\ chk' = a
  /\ CASE CheckOutcome(a) = "return" ->
            /\ out' = "AlreadySubscribed"
            /\ sub_ret' = ReturnValue("AlreadySubscribed")
            /\ pc' = "subscribe_returned"
            /\ UNCHANGED << exc, calls >>
       [] CheckOutcome(a) = "insert" ->
            /\ calls' = Append(calls, << i, InsertRequest(channel_id[1]) >>)
            /\ pc' = "insert"
            /\ UNCHANGED << exc, out, sub_ret >>
       [] OTHER ->
            /\ exc' = a.k
            /\ out' = "Raised"
            /\ pc' = "subscribe_raised"
            /\ UNCHANGED << sub_ret, calls >>
  /\ UNCHANGED << bulkVars, resolveVars, channel_id, ins, subs, first >>

\* lines 162-178: from the answer of the create mutation on
subscription_response(a) ==
  /\ pc = "insert"
  /\ ins' = a
  /\ out' = InsertOutcome(a)
  /\ IF InsertOutcome(a) = "Raised"
     THEN /\ exc' = (IF a.k = "HttpError" THEN "HandlerError" ELSE a.k)
          /\ pc' = "subscribe_raised"
          /\ UNCHANGED sub_ret
     ELSE /\ sub_ret' = ReturnValue(InsertOutcome(a))
          /\ pc' = "subscribe_returned"
          /\ UNCHANGED exc
  /\ UNCHANGED << bulkVars, resolveVars, channel_id, chk, calls, first >>

\* the service answers freely (every outcome of every call)
ListAnswered == \E a \in ListAnswers : existing_sub(a) /\ UNCHANGED subs
InsertAnswered == \E a \in InsertAnswers : subscription_response(a) /\ UNCHANGED subs

\* -------------------------------------------------------- Bulk Orchestrator
\* lines 187-191: the for statement takes the next item and strips it, or ends
for_next ==
  /\ pc = "loop"
  /\ IF i < Len(channel_urls)
     THEN /\ i' = i + 1
          /\ url' = Strip(channel_urls[i + 1])
          /\ pc' = "extract"
     ELSE /\ pc' = "summary"
          /\ UNCHANGED << i, url >>
  /\ UNCHANGED << channel_urls, delay, successful, failed, rate, sleeps, outcomes,
                  response, ret, exc, subscribeVars, calls, subs, first >>

\* lines 191-193: the resolved identifier is handed to subscribe_to_channel
call_subscribe ==
  /\ pc = "extract_returned"
  /\ channel_id' = ret
  /\ pc' = "subscribe"
  /\ UNCHANGED << bulkVars, resolveVars, exc, chk, ins, out, sub_ret, calls, subs, first >>

\* faulty variant of count_result: a False return is retried instead of counted
count_result_retry ==
  /\ pc = "subscribe_returned"
  /\ IF sub_ret = "True"
     THEN /\ successful' = successful + 1
          /\ outcomes' = Append(outcomes, "Success")
          /\ pc' = "pace"
     ELSE /\ pc' = "subscribe"
          /\ UNCHANGED << successful, outcomes >>
  /\ UNCHANGED << channel_urls, delay, i, failed, rate, sleeps, resolveVars, exc,
                  subscribeVars, calls, subs, first >>

\* lines 193-196: the returned truth value picks the counter
count_result ==
  /\ pc = "subscribe_returned"
  /\ IF sub_ret = "True"
     THEN /\ successful' = successful + 1
          /\ outcomes' = Append(outcomes, "Success")
          /\ UNCHANGED failed
     ELSE /\ failed' = failed + 1
          /\ outcomes' = Append(outcomes, "Failed")
          /\ UNCHANGED successful
  /\ pc' = "pace"
  /\ UNCHANGED << channel_urls, delay, i, rate, sleeps, resolveVars, exc,
                  subscribeVars, calls, subs, first >>

\* faulty variant of Catches: except ValueError
Catches_ValueErrorOnly(e) == e = "ValueError"

\* line 198: the exceptions `except Exception` catches, which is each of
\* ValueError, HttpError, the JSON and index errors of the handler and the
\* client library's other errors
Catches(e) == e \in { "ValueError", "HttpError", "HandlerError", "Error" }

\* lines 198-200: except Exception; an exception it does not catch leaves
\* bulk_subscribe
except_Exception ==
  /\ pc \in { "extract_raised", "subscribe_raised" }
  /\ IF Catches(exc)
     THEN /\ failed' = failed + 1
          /\ outcomes' = Append(outcomes,
                IF pc = "extract_raised" THEN "ResolutionFailed" ELSE "Failed")
          /\ exc' = "none"
          /\ pc' = "pace"
     ELSE /\ pc' = "raised"
          /\ UNCHANGED << failed, outcomes, exc >>
  /\ UNCHANGED << channel_urls, delay, i, successful, rate, sleeps, resolveVars,
                  subscribeVars, calls, subs, first >>

\* faulty variant of ShouldSleep: the last item is followed by a delay too
ShouldSleep_always(idx, n) == idx <= n

\* line 203: the condition of the delay
ShouldSleep(idx, n) == idx < n

\* lines 203-204: the delay between two items; what the try block bound for
\* this item (the identifier, the answers, the returned value) is not read
\* again
rate_limit ==
  /\ pc = "pace"
  /\ sleeps' = IF ShouldSleep(i, Len(channel_urls))
                THEN Append(sleeps, << i, delay >>) ELSE sleeps
  /\ pc' = "loop"
  /\ response' = NoAnswer
  /\ ret' = <<>>
  /\ channel_id' = <<>>
  /\ chk' = NoAnswer
  /\ ins' = NoAnswer
  /\ out' = "none"
  /\ sub_ret' = "none"
  /\ UNCHANGED << channel_urls, delay, i, successful, failed, rate, outcomes,
                  url, exc, calls, subs, first >>

\* line 209: successful / (successful + failed) * 100 to one decimal, in
\* tenths of a percent (no tie arises below 16 items)
SuccessRate(s, f) == (2000 * s + (s + f)) \div (2 * (s + f))

\* lines 206-209: the summary; the division raises on a zero total
summary ==
  /\ pc = "summary"
  /\ IF successful + failed = 0
     THEN /\ exc' = "ZeroDivisionError"
          /\ pc' = "raised"
          /\ UNCHANGED rate
     ELSE /\ rate' = SuccessRate(successful, failed)
          /\ pc' = "done"
          /\ UNCHANGED exc
  /\ UNCHANGED << channel_urls, delay, i, successful, failed, sleeps, outcomes,
                  resolveVars, subscribeVars, calls, subs, first >>

RECURSIVE SeqsUpTo(_, _)
SeqsUpTo(S, n) ==
  IF n = 0 THEN { <<>> }
  ELSE LET shorter == SeqsUpTo(S, n - 1) IN
       shorter \cup { Append(q, x) : q \in shorter, x \in S }

\* bulk_subscribe(channel_urls, delay) after lines 182-185
Init ==
  /\ channel_urls \in SeqsUpTo(RunUrls, MaxUrls)
  /\ delay \in Delays
  /\ i = 0
  /\ successful = 0
  /\ failed = 0
  /\ rate = -1
  /\ sleeps = <<>>
  /\ outcomes = <<>>
  /\ pc = "loop"
  /\ url = <<>>
  /\ response = NoAnswer
  /\ ret = <<>>
  /\ exc = "none"
  /\ channel_id = <<>>
  /\ chk = NoAnswer
  /\ ins = NoAnswer
  /\ out = "none"
  /\ sub_ret = "none"
  /\ calls = <<>>
  /\ subs = {}
  /\ first = "none"

Next ==
  \/ for_next
  \/ extract_channel_id
  \/ SearchAnswers
  \/ ChannelsAnswers
  \/ call_subscribe
  \/ subscribe_to_channel
  \/ ListAnswered
  \/ InsertAnswered
  \/ count_result
  \/ except_Exception
  \/ rate_limit
  \/ summary

Spec == Init /\ [][Next]_vars

\* --------------------------------------- a run on one reference of any shape
\* bulk_subscribe([reference], 1) after lines 182-185
InitOne ==
  /\ channel_urls \in { << r >> : r \in References }
  /\ delay = 1
  /\ i = 0
  /\ successful = 0
  /\ failed = 0
  /\ rate = -1
  /\ sleeps = <<>>
  /\ outcomes = <<>>
  /\ pc = "loop"
  /\ url = <<>>
  /\ response = NoAnswer
  /\ ret = <<>>
  /\ exc = "none"
  /\ channel_id = <<>>
  /\ chk = NoAnswer
  /\ ins = NoAnswer
  /\ out = "none"
  /\ sub_ret = "none"
  /\ calls = <<>>
  /\ subs = {}
  /\ first = "none"

SpecOne == InitOne /\ [][Next]_vars

\* ------------------------- subscribe_to_channel twice on the same channel
\* The service of the idempotence property: it records the subscriptions of
\* the account, answers the existence check with a match only for a recorded
\* one (a recorded one may still be missed, and the check may fail with an
\* HTTP error), creates a subscription that is not recorded and rejects the
\* create of a recorded one with reason subscriptionDuplicate.
ServiceListAnswers(id) ==
  { Answer("items", <<>>, <<>>), Answer("HttpError", <<>>, <<>>) }
  \cup (IF id \in subs THEN { Answer("items", << <<"s","1">> >>, <<>>) } ELSE {})

ServiceInsertAnswer(id) ==
  IF id \in subs THEN Answer("HttpError", <<>>, DuplicateBody) ELSE Answer("ok", <<>>, <<>>)

ServiceList ==
  /\ \E a \in ServiceListAnswers(channel_id[1]) : existing_sub(a)
  /\ UNCHANGED subs

ServiceInsert ==
  /\ pc = "insert"
  /\ subscription_response(ServiceInsertAnswer(channel_id[1]))
  /\ subs' = subs \cup { channel_id[1] }

\* the caller calls subscribe_to_channel again with the same identifier
second_call ==
  /\ pc = "subscribe_returned"
  /\ first = "none"
  /\ first' = out
  /\ chk' = NoAnswer
  /\ ins' = NoAnswer
  /\ out' = "none"
  /\ sub_ret' = "none"
  /\ pc' = "subscribe"
  /\ UNCHANGED << bulkVars, resolveVars, exc, channel_id, calls, subs >>

InitIdem ==
  /\ channel_id \in { << id >> : id \in SubscribeIds }
  /\ subs \in SUBSET SubscribeIds
  /\ pc = "subscribe"
  /\ first = "none"
  /\ channel_urls = <<>>
  /\ delay = 1
  /\ i = 0
  /\ successful = 0
  /\ failed = 0
  /\ rate = -1
  /\ sleeps = <<>>
  /\ outcomes = <<>>
  /\ url = <<>>
  /\ response = NoAnswer
  /\ ret = <<>>
  /\ exc = "none"
  /\ chk = NoAnswer
  /\ ins = NoAnswer
  /\ out = "none"
  /\ sub_ret = "none"
  /\ calls = <<>>

NextIdem ==
  \/ subscribe_to_channel
  \/ ServiceList
  \/ ServiceInsert
  \/ second_call

SpecIdem == InitIdem /\ [][NextIdem]_vars

\* ============================================================ properties
\* -------------------------------------------------- what the properties read
\* the statements inside the try block of the item in hand
InItem ==
  { "extract", "search", "channels", "extract_returned", "extract_raised",
    "subscribe", "list", "insert", "subscribe_returned", "subscribe_raised" }
\* the loop is over
AfterLoop == { "summary", "done", "raised" }
\* the items whose try block has been left
Finished == IF pc \in InItem THEN i - 1 ELSE i

CountOf(o) == Cardinality({ k \in 1..Len(outcomes) : outcomes[k] = o })

\* the operations of the requests issued for item k, in order
RECURSIVE OpsIn(_, _)
OpsIn(log, k) ==
  IF log = <<>> THEN <<>>
  ELSE (IF Head(log)[1] = k THEN << Head(log)[2][1] >> ELSE <<>>) \o OpsIn(Tail(log), k)

OpsOf(k) == OpsIn(calls, k)
Issued(k, op) == \E n \in 1..Len(calls) : calls[n][1] = k /\ calls[n][2][1] = op
TimesIssued(k, op) ==
  Cardinality({ n \in 1..Len(calls) : calls[n][1] = k /\ calls[n][2][1] = op })

\* the answers, read off the raw answer and not through the code's operators
Matched(a) == a.k = "items" /\ a.items # <<>>
NoMatch(a) == a.k = "items" /\ a.items = <<>>
ServiceError(a) == a.k = "HttpError"
ReportsDuplicate(a) ==
  /\ a.k = "HttpError"
  /\ a.content.json /\ a.content.hasErrors
  /\ a.content.errors # <<>>
  /\ a.content.errors[1] = "subscriptionDuplicate"

\* ------------------------------------------------------------------- C1
\* C1: partial-failure isolation. Whatever the lookups, the existence check
\* and the create mutation answer (ValueError, a lookup error, a False
\* return, an exception raised inside the HttpError handler), the items are
\* taken in order, each finished item has added one to exactly one counter,
\* and once the loop is left all N items have been taken with
\* successful + failed = N; the run is never left from inside an item.
C1_PartialFailureIsolation ==
  /\ i \in 0..Len(channel_urls)
  /\ Len(outcomes) = Finished
  /\ successful = CountOf("Success")
  /\ failed = CountOf("Failed") + CountOf("ResolutionFailed")
  /\ successful + failed = Finished
  /\ pc \in AfterLoop =>
       /\ i = Len(channel_urls)
       /\ successful + failed = Len(channel_urls)

\* a run of two items that both failed, the second by an exception raised
\* inside the HttpError handler (a body that is not JSON), both counted
C1_Witness ==
  /\ pc = "pace"
  /\ i = 2 /\ Len(channel_urls) = 2
  /\ ins.k = "HttpError" /\ ~ins.content.json
  /\ outcomes = << "ResolutionFailed", "Failed" >>
  /\ successful = 0 /\ failed = 2

\* ------------------------------------------------------------------- C2
\* C2: a run on an empty list of references reaches its end with the rate
\* defined (0 or N/A); the rate computation does not raise.
C2_EmptyRunFinalizes ==
  (Len(channel_urls) = 0 /\ pc \notin { "loop", "summary" }) =>
    (pc = "done" /\ exc = "none")

\* ------------------------------------------------------------------- C4
\* C4: pacing. A run on N >= 1 references with delay d sleeps exactly N-1
\* times, for d each time, once after each item but the last, whatever the
\* item's outcome; there is no sleep after the last item and none for N = 0.
SleepsDue ==
  IF pc \in InItem \/ pc = "pace" THEN i - 1
  ELSE IF i < Len(channel_urls) THEN i
  ELSE IF Len(channel_urls) = 0 THEN 0 ELSE Len(channel_urls) - 1

C4_Pacing ==
  /\ Len(sleeps) = SleepsDue
  /\ \A k \in 1..Len(sleeps) : sleeps[k] = << k, delay >>
  /\ pc \in AfterLoop =>
       Len(sleeps) = (IF Len(channel_urls) = 0 THEN 0 ELSE Len(channel_urls) - 1)

\* a finished run of two items, the first of them failed, with its one sleep
C4_Witness ==
  /\ pc = "done"
  /\ Len(channel_urls) = 2
  /\ outcomes[1] # "Success"
  /\ sleeps = << << 1, delay >> >>

\* ------------------------------------------------------------------- C5
Occurrences(s, sep) == { k \in 1..Len(s) : OccursAt(s, sep, k) }
Least(S) == CHOOSE k \in S : \A j \in S : k <= j
Greatest(S) == CHOOSE k \in S : \A j \in S : k >= j
\* t up to its first "?", all of t when it has none
UpToQuery(t) ==
  LET q == { j \in 1..Len(t) : t[j] = "?" } IN
  IF q = {} THEN t ELSE SubSeq(t, 1, Least(q) - 1)
\* what follows the occurrence of sep at k, up to the first following "?"
SegmentAfter(s, sep, k) == UpToQuery(SubSeq(s, k + Len(sep), Len(s)))

\* extract_channel_id has just ended or handed over to a lookup
JustExtracted == pc \in { "extract_returned", "extract_raised", "search", "channels" }

C6_HandleSearchQuery ==
  (Contains(url, AtSep) /\ pc \in InItem) =>
    /\ \A n \in 1..Len(calls) :
         (calls[n][1] = i /\ calls[n][2][1] = "search.list") =>
           calls[n][2] = << "search.list",
                            AtSep \o SegmentAfter(url, AtSep, Greatest(Occurrences(url, AtSep))),
                            "channel", "id", 1 >>
    /\ (~Contains(url, ChannelSep) /\ pc # "extract") =>
         /\ TimesIssued(i, "search.list") = 1
         /\ ~Issued(i, "channels.list")
    /\ (pc \in { "extract_returned", "extract_raised" } /\ response.k = "items") =>
         IF response.items # <<>>
         THEN pc = "extract_returned" /\ ret = << response.items[1] >>
         ELSE pc = "extract_raised" /\ exc = "ValueError"
    /\ (pc = "extract_returned" /\ ~Contains(url, ChannelSep)) => Matched(response)

\* a handle reference with two `@` and a query part, resolved by the search
C6_Witness ==
  /\ pc = "extract_returned"
  /\ Cardinality(Occurrences(url, AtSep)) = 2
  /\ Contains(url, QSep)
  /\ Issued(i, "search.list")
  /\ Matched(response)

\* ------------------------------------------------------------------- C7
Unknown(u) ==
  /\ ~Contains(u, ChannelSep) /\ ~Contains(u, CSep)
  /\ ~Contains(u, AtSep) /\ ~Contains(u, UserSep)

\* C7: a reference that contains none of `channel/`, `c/`, `@`, `user/`
\* makes extract_channel_id raise ValueError without any external call, and
\* bulk_subscribe counts the item as exactly one failure, with no existence
\* check and no create issued for it.
C7_UnknownScheme ==
  \A k \in 1..i :
    Unknown(channel_urls[k]) =>
      /\ \A n \in 1..Len(calls) : calls[n][1] # k
      /\ (k = i /\ pc \in InItem) =>
           /\ pc \in { "extract", "extract_raised" }
           /\ pc = "extract_raised" => exc = "ValueError"
      /\ k <= Len(outcomes) =>
           /\ outcomes[k] = "ResolutionFailed"
           /\ failed = CountOf("Failed") + CountOf("ResolutionFailed")
           /\ successful = CountOf("Success")

\* an unknown reference with a query part, counted as the run's one failure
C7_Witness ==
  /\ pc = "done"
  /\ Unknown(channel_urls[1]) /\ Contains(channel_urls[1], QSep)
  /\ failed = 1 /\ successful = 0
  /\ calls = <<>>

\* ------------------------------------------------------------------- C3
\* C3: against a service that records subscriptions and rejects the create
\* of a recorded one with reason subscriptionDuplicate, whatever the
\* existence check answers (a match, no match, an error), two successive
\* subscribe_to_channel calls on one identifier never both end in Created,
\* the second never returns False for the duplication, and the second ends
\* in AlreadySubscribed.
C3_Idempotence ==
  (first # "none" /\ pc \in { "subscribe_returned", "subscribe_raised" }) =>
    /\ ~(first = "Created" /\ out = "Created")
    /\ ReportsDuplicate(ins) => sub_ret # "False"
    /\ pc = "subscribe_returned"
    /\ out = "AlreadySubscribed"
    /\ sub_ret = "True"

\* the first call created the subscription, the check of the second failed
\* or missed it, and the rejected create ended in AlreadySubscribed
C3_Witness ==
  /\ first = "Created"
  /\ pc = "subscribe_returned"
  /\ ~Matched(chk)
  /\ ReportsDuplicate(ins)
  /\ out = "AlreadySubscribed"

\* ------------------------------------------------------------------- C8
\* C8: an item is counted as a success exactly when its resolution returned
\* an identifier and its subscribe step ended by one of: the existence check
\* returned a match, the create mutation succeeded, the create mutation
\* failed with the service-reported reason subscriptionDuplicate; every
\* other item is counted as a failure.
C8_OutcomeMapping ==
  pc = "pace" =>
    /\ outcomes[i] = "Success" <=>
         /\ ret # <<>>
         /\ Matched(chk) \/ ins.k = "ok" \/ ReportsDuplicate(ins)
    /\ outcomes[i] # "Success" => outcomes[i] \in { "Failed", "ResolutionFailed" }
    /\ successful = CountOf("Success")
    /\ failed = CountOf("Failed") + CountOf("ResolutionFailed")

\* an item counted as a success after a failed check and a duplicate create
C8_Witness ==
  /\ pc = "pace"
  /\ ServiceError(chk)
  /\ ReportsDuplicate(ins)
  /\ outcomes[i] = "Success"
  /\ successful = 1

\* ------------------------------------------------------------------- C9
\* C9: in subscribe_to_channel the create mutation is issued exactly when
\* the existence check before it returned an empty list or failed with a
\* service error (an HttpError, which is ignored); a check that returns a
\* match ends the call at once in AlreadySubscribed with no create issued.
C9_ExistenceCheckGating ==
  (pc \in InItem \/ pc = "pace") =>
    /\ Issued(i, "subscriptions.insert") <=> (NoMatch(chk) \/ ServiceError(chk))
    /\ Matched(chk) =>
         /\ pc \in { "subscribe_returned", "pace" }
         /\ out = "AlreadySubscribed"
         /\ sub_ret = "True"
         /\ ins = NoAnswer
    /\ Issued(i, "subscriptions.insert") =>
         /\ TimesIssued(i, "subscriptions.list") = 1
         /\ TimesIssued(i, "subscriptions.insert") = 1
         /\ calls[Len(calls) - 1] = << i, ListRequest(channel_id[1]) >>
         /\ calls[Len(calls)] = << i, InsertRequest(channel_id[1]) >>

\* the existence check failed with a service error and the create is in flight
C9_Witness ==
  /\ pc = "insert"
  /\ ServiceError(chk)
  /\ Issued(i, "subscriptions.insert")

\* ------------------------------------------------------------------ C10
\* the state of reference k in the per-reference state machine
Phase(k) ==
  IF k <= Len(outcomes) THEN outcomes[k]
  ELSE IF k # i THEN "Pending"
  ELSE CASE pc \in { "extract", "search", "channels" } -> "Resolving"
         [] pc = "extract_raised" -> "ResolutionFailed"
         [] pc = "extract_returned" -> "Resolved"
         [] pc \in { "subscribe", "list", "insert" } -> "Subscribing"
         [] pc = "subscribe_returned" -> (IF sub_ret = "True" THEN "Success" ELSE "Failed")
         [] pc = "subscribe_raised" -> "Failed"
         [] OTHER -> "Pending"

Terminal == { "ResolutionFailed", "Success", "Failed" }

PhaseSteps ==
  { << "Pending", "Resolving" >>,
    << "Resolving", "ResolutionFailed" >>, << "Resolving", "Resolved" >>,
    << "Resolved", "Subscribing" >>,
    << "Subscribing", "Success" >>, << "Subscribing", "Failed" >> }
  \cup { << p, p >> : p \in { "Pending", "Resolving", "Resolved", "Subscribing" } \cup Terminal }

Lookups == { "search.list", "channels.list" }

\* The request a step adds to the log: it is a request of the item in hand,
\* issued while the items before it are finished; a lookup is the first
\* request of its item and is issued while the item is being resolved; an
\* existence check is the first request of its item or follows its lookup,
\* and is issued on entering the subscribe step from a successful
\* resolution; a create follows the existence check of its item. So an item
\* issues at most one lookup, one check and one create, in that order.
NewCallOk(old, e) ==
  LET n == Len(old)
      fresh == n = 0 \/ old[n][1] < e[1]
      op == e[2][1]
  IN /\ e[1] = i
     /\ Len(outcomes) = i - 1
     /\ n > 0 => old[n][1] <= e[1]
     /\ op \in Lookups => (fresh /\ Phase(i) = "Resolving")
     /\ op = "subscriptions.list" =>
          /\ fresh \/ old[n][2][1] \in Lookups
          /\ Phase(i) = "Subscribing"
          /\ ret # <<>> /\ channel_id = ret
     /\ op = "subscriptions.insert" =>
          /\ ~fresh
          /\ old[n][2][1] = "subscriptions.list"
          /\ Phase(i) = "Subscribing"
     /\ op \in Lookups \cup { "subscriptions.list", "subscriptions.insert" }

\* C10: every reference moves only along Pending -> Resolving ->
\* (ResolutionFailed | Resolved -> Subscribing -> (Success | Failed)); the
\* subscribe step follows a successful resolution of the same item; an item
\* issues at most one lookup, one existence check and one create, in that
\* order and never again after a failure; and no request of item k+1 is
\* issued before item k is in a terminal state.
C10_StateMachine ==
  [][ /\ \A k \in 1..Len(channel_urls) : << Phase(k), Phase(k)' >> \in PhaseSteps
      /\ \A k \in 1..(i' - 1) : Phase(k)' \in Terminal
      /\ \/ calls' = calls
         \/ /\ Len(calls') = Len(calls) + 1
            /\ SubSeq(calls', 1, Len(calls)) = calls
            /\ i' = i
            /\ NewCallOk(calls, calls'[Len(calls')]) ]_vars

\* a finished run of two items: the first resolved by a search and failed
\* in the create, the second resolved directly and already subscribed
C10_Witness ==
  /\ pc = "done"
  /\ Len(channel_urls) = 2
  /\ outcomes = << "Failed", "Success" >>
  /\ OpsOf(1) = << "search.list", "subscriptions.list", "subscriptions.insert" >>
  /\ OpsOf(2) = << "subscriptions.list" >>

====
